---------------------------- MODULE Spec2Model ----------------------------
(* Degree-by-degree computation of polynomials vanishing on a finite set   *)
(* of planar points (src/2D.py, src/poly.py: the two files hold the same   *)
(* helper functions and the same generator nullspace_polynomials).         *)
(*                                                                         *)
(* A monomial x^i * y^j is the exponent pair <<i, j>>.  A scalar is an     *)
(* exact rational <<n, d>> with d > 0 and gcd(|n|, d) = 1.  A polynomial   *)
(* expression is the set of its non-zero terms <<monomial, coefficient>>;  *)
(* Poly(p) lists them as sympy's Poly(p, x, y) does, the lexicographically *)
(* greatest monomial first.                                                *)
EXTENDS Integers, Sequences, FiniteSets, TLC

(***************************************************************************)
(* Bounds of the model.                                                    *)
(***************************************************************************)
MaxCoord == 1
MaxPts == 2
MaxDegree == 4

(***************************************************************************)
(* Exact rational arithmetic, as sympy's Rational performs it.             *)
(***************************************************************************)
Abs(n) == IF n < 0 THEN -n ELSE n

RECURSIVE GCD(_, _)
GCD(a, b) == IF b = 0 THEN a ELSE GCD(b, a % b)

Rat(n, d) ==
    IF n = 0 THEN <<0, 1>>
    ELSE LET g == GCD(Abs(n), Abs(d))
             s == IF d < 0 THEN -1 ELSE 1
         IN  <<(s * n) \div g, (s * d) \div g>>

RZero == <<0, 1>>
ROne == <<1, 1>>
RInt(n) == <<n, 1>>
RAdd(a, b) == Rat(a[1] * b[2] + b[1] * a[2], a[2] * b[2])
RSub(a, b) == Rat(a[1] * b[2] - b[1] * a[2], a[2] * b[2])
RMul(a, b) == Rat(a[1] * b[1], a[2] * b[2])
RDiv(a, b) == Rat(a[1] * b[2], a[2] * b[1])
RNeg(a) == <<-a[1], a[2]>>

\* IPow with 0**0 taken as 0.
RECURSIVE IPowZero(_, _)
IPowZero(b, e) ==
    IF e = 0 THEN (IF b = 0 THEN 0 ELSE 1) ELSE b * IPowZero(b, e - 1)

RECURSIVE IPow(_, _)
IPow(b, e) == IF e = 0 THEN 1 ELSE b * IPow(b, e - 1)

(***************************************************************************)
(* Helper functions of the source.                                         *)
(***************************************************************************)
\* for total in range(deg + 1): for i in range(total + 1): j = total - i
DegreeGroup(total) == [n \in 1..(total + 1) |-> <<n - 1, total - (n - 1)>>]

RECURSIVE monomials_up_to_degree(_)
monomials_up_to_degree(deg) ==
    IF deg < 0 THEN <<>>
    ELSE monomials_up_to_degree(deg - 1) \o DegreeGroup(deg)

\* m.as_powers_dict(): base |-> exponent.  x**i * y**j keeps only the
\* symbols with a positive exponent; the constant 1 is the single entry
\* 1 |-> 1 (Expr.as_powers_dict of a number: its as_base_exp pair).
as_powers_dict(m) ==
    IF m = <<0, 0>> THEN {<<"1", 1>>}
    ELSE {e \in {<<"x", m[1]>>, <<"y", m[2]>>} : e[2] > 0}

\* pd.get(sym, 0)
DictGet(pd, sym) ==
    IF \E e \in pd : e[1] = sym THEN (CHOOSE e \in pd : e[1] = sym)[2] ELSE 0

\* divides with a strict comparison of the exponents.
dividesStrict(m1, m2) ==
    LET pd1 == as_powers_dict(m1)
        pd2 == as_powers_dict(m2)
    IN  \A e \in pd1 : DictGet(pd2, e[1]) > e[2]

\* True if monomial m2 is divisible by m1.
divides(m1, m2) ==
    LET pd1 == as_powers_dict(m1)
        pd2 == as_powers_dict(m2)
    IN  \A e \in pd1 : DictGet(pd2, e[1]) >= e[2]

(***************************************************************************)
(* The evaluation matrix and its null space (sympy Matrix.nullspace()).    *)
(***************************************************************************)
\* m.subs({x: xi, y: yi}); x**0 and y**0 are the constant 1.
Subs(m, pt) == IPow(pt[1], m[1]) * IPow(pt[2], m[2])

\* sp.Matrix([[m.subs(...) for m in monos_filt] for xi, yi in pts])
EvalMatrix(monos, points_) ==
    [r \in 1..Len(points_) |-> [c \in 1..Len(monos) |-> RInt(Subs(monos[c], points_[r]))]]

\* The shape sympy gives a matrix built from a list of rows: an empty list
\* of rows is the 0 x 0 matrix, whatever the number of monomials.
Rows(M) == Len(M)
Cols(M) == IF Len(M) = 0 THEN 0 ELSE Len(M[1])

\* F applied to the value of e (e is evaluated once).
Bind(e, F(_)) == CHOOSE v \in {F(u) : u \in {e}} : TRUE

\* One pivot step of the reduction: row p becomes row r, is scaled to a
\* leading 1, and column c is cleared in every other row.
PivotStep(M, c, r, p) ==
    LET swapped(i) == IF i = r THEN M[p] ELSE IF i = p THEN M[r] ELSE M[i]
        Clear(prow) ==
            [i \in 1..Len(M) |->
                IF i = r THEN prow
                ELSE IF swapped(i)[c] = RZero THEN swapped(i)
                ELSE [j \in 1..Len(prow) |->
                        RSub(swapped(i)[j], RMul(swapped(i)[c], prow[j]))]]
    IN  Bind([j \in 1..Len(M[p]) |-> RDiv(M[p][j], M[p][c])], Clear)

\* One column of the reduction.  st holds the matrix so far, the column
\* under inspection and the pivot columns found so far.  The pivot is the
\* first non-zero entry of the column at or below the next pivot row.
ReduceColumn(st) ==
    LET r == Len(st.pivots) + 1
        cand == {i \in r..Rows(st.mat) : st.mat[i][st.col] # RZero}
        Pivot(p) == [mat |-> PivotStep(st.mat, st.col, r, p),
                     col |-> st.col + 1,
                     pivots |-> Append(st.pivots, st.col)]
    IN  IF cand = {} THEN [st EXCEPT !.col = @ + 1]
        ELSE Bind(CHOOSE i \in cand : \A q \in cand : i <= q, Pivot)

\* The reduction, column by column, until the columns or the rows run out.
RECURSIVE RowReduce(_)
RowReduce(st) ==
    IF st.col > Cols(st.mat) \/ Len(st.pivots) = Rows(st.mat)
    THEN [mat |-> st.mat, pivots |-> st.pivots]
    ELSE Bind(ReduceColumn(st), RowReduce)

\* M.rref(): the reduced row echelon form and the pivot columns.
rref(M) == Bind([mat |-> M, col |-> 1, pivots |-> <<>>], RowReduce)

\* BasisVector with the sign of the reduced entries kept.
BasisVectorSameSign(red, free) ==
    [c \in 1..Cols(red.mat) |->
        IF c = free THEN ROne
        ELSE IF \E r \in 1..Len(red.pivots) : red.pivots[r] = c
             THEN red.mat[CHOOSE r \in 1..Len(red.pivots) : red.pivots[r] = c][free]
             ELSE RZero]

\* The basis vector of one free column: 1 at the free column, minus the
\* reduced entry of that column at every pivot column, 0 elsewhere.
BasisVector(red, free) ==
    [c \in 1..Cols(red.mat) |->
        IF c = free THEN ROne
        ELSE IF \E r \in 1..Len(red.pivots) : red.pivots[r] = c
             THEN RNeg(red.mat[CHOOSE r \in 1..Len(red.pivots) : red.pivots[r] = c][free])
             ELSE RZero]

\* The columns that hold no pivot, ascending.
FreeColumns(red) ==
    LET isFree(c) == \A r \in 1..Len(red.pivots) : red.pivots[r] # c
    IN  SelectSeq([c \in 1..Cols(red.mat) |-> c], isFree)

\* M.nullspace(): one basis vector per free column, free columns ascending.
nullspace(M) ==
    LET Basis(red) ==
            LET Vectors(free) == [n \in 1..Len(free) |-> BasisVector(red, free[n])]
            IN  Bind(FreeColumns(red), Vectors)
    IN  Bind(rref(M), Basis)

(***************************************************************************)
(* Polynomials.                                                            *)
(***************************************************************************)
\* sp.factor(sum(c * m for c, m in zip(vec, monos_filt))): the expression,
\* as the set of its non-zero terms <<monomial, coefficient>>.  Factoring
\* changes the written form of the expression, not the polynomial.
PolyExpr(vec, monos) ==
    {<<monos[c], vec[c]>> : c \in {n \in 1..Len(monos) : vec[n] # RZero}}

\* sympy's default term order of Poly(p, x, y): lexicographic with x > y.
LexGreater(a, b) == a[1] > b[1] \/ (a[1] = b[1] /\ a[2] > b[2])

\* sp.Poly(p, x, y): the terms of the expression, greatest monomial first.
Poly(p) ==
    [n \in 1..Cardinality(p) |->
        CHOOSE t \in p : Cardinality({u \in p : LexGreater(u[1], t[1])}) = n - 1]

\* poly_obj.monoms()
monoms(poly_obj) == [n \in 1..Len(poly_obj) |-> poly_obj[n][1]]

\* LeadTerm taking the last monomial of the term list instead of the first.
LeadTermLast(p) ==
    LET Last(poly_obj) == monoms(poly_obj)[Len(poly_obj)]
    IN  Bind(Poly(p), Last)

\* exp_tuple = sp.Poly(p, x, y).monoms()[0]; lt = x**exp_tuple[0] * y**exp_tuple[1]
LeadTerm(p) ==
    LET First(poly_obj) == monoms(poly_obj)[1]
    IN  Bind(Poly(p), First)

(***************************************************************************)
(* Inputs: the point sequences and degree bounds a run is started with.    *)
(***************************************************************************)
Grid == (0..MaxCoord) \X (0..MaxCoord)

\* The sample point set of the scripts.
points == <<<<0, 0>>, <<1, 0>>, <<2, 0>>, <<0, 1>>>>

\* Three points on no line with three distinct ordinates, and six points
\* on no conic.
ThreePoints == <<<<0, 0>>, <<0, 1>>, <<1, 2>>>>
SixPoints == <<<<0, 0>>, <<0, 1>>, <<0, 2>>, <<1, 0>>, <<1, 1>>, <<2, 3>>>>

PointSeqs ==
    UNION {[1..n -> Grid] : n \in 0..MaxPts} \cup {points, ThreePoints, SixPoints}

(***************************************************************************)
(* The generator nullspace_polynomials(pts, max_degree).                   *)
(***************************************************************************)
VARIABLES pts, max_degree, d, lead_terms, monos_filt, polys, k, out, pc

vars == <<pts, max_degree, d, lead_terms, monos_filt, polys, k, out, pc>>

Init ==
    /\ pts \in PointSeqs
    /\ max_degree \in 0..MaxDegree
    /\ d = 0
    /\ lead_terms = <<>>
    /\ monos_filt = <<>>
    /\ polys = <<>>
    /\ k = 1
    /\ out = <<>>
    /\ pc = "filter"

\* [m for m in monos if not any(divides(lt, m) for lt in lead_terms)]
\* (every recorded term is a sympy expression, so hasattr(...) is true)
FilterMonos(monos, lts) ==
    LET keep(m) == ~ \E n \in 1..Len(lts) : divides(lts[n], m)
    IN  SelectSeq(monos, keep)

\* M = sp.Matrix(...); ker = M.nullspace(); polys = [sp.factor(...) for vec in ker]
NullspacePolys(monos, points_) ==
    LET Polys(ker) == [n \in 1..Len(ker) |-> PolyExpr(ker[n], monos)]
    IN  Bind(nullspace(EvalMatrix(monos, points_)), Polys)

\* monos = monomials_up_to_degree(d); monos_filt = [...]
Filter ==
    /\ pc = "filter"
    /\ monos_filt' = FilterMonos(monomials_up_to_degree(d), lead_terms)
    /\ pc' = "solve"
    /\ UNCHANGED <<pts, max_degree, d, lead_terms, polys, k, out>>

\* build the evaluation matrix, take its null space, form the polynomials
Solve ==
    /\ pc = "solve"
    /\ polys' = NullspacePolys(monos_filt, pts)
    /\ k' = 1
    /\ pc' = "record"
    /\ UNCHANGED <<pts, max_degree, d, lead_terms, monos_filt, out>>

\* Record with the accumulator emptied on every pass.
RecordReset ==
    /\ pc = "record"
    /\ k <= Len(polys)
    /\ lead_terms' = <<LeadTerm(polys[k])>>
    /\ k' = k + 1
    /\ UNCHANGED <<pts, max_degree, d, monos_filt, polys, out, pc>>

\* one pass of "for p in polys": lead_terms.append(lt)
Record ==
    /\ pc = "record"
    /\ k <= Len(polys)
    /\ lead_terms' = Append(lead_terms, LeadTerm(polys[k]))
    /\ k' = k + 1
    /\ UNCHANGED <<pts, max_degree, d, monos_filt, polys, out, pc>>

\* Yield with the loop running over range(max_degree).
YieldOffByOne ==
    /\ pc = "record"
    /\ k > Len(polys)
    /\ out' = Append(out, [degree |-> d, monos |-> monos_filt, polys |-> polys])
    /\ d' = d + 1
    /\ pc' = IF d + 1 < max_degree THEN "filter" ELSE "done"
    /\ UNCHANGED <<pts, max_degree, lead_terms, monos_filt, polys, k>>

\* yield d, monos_filt, polys; then the next pass of "for d in range(...)"
Yield ==
    /\ pc = "record"
    /\ k > Len(polys)
    /\ out' = Append(out, [degree |-> d, monos |-> monos_filt, polys |-> polys])
    /\ d' = d + 1
    /\ pc' = IF d + 1 <= max_degree THEN "filter" ELSE "done"
    /\ UNCHANGED <<pts, max_degree, lead_terms, monos_filt, polys, k>>

Next == Filter \/ Solve \/ Record \/ Yield

Spec == Init /\ [][Next]_vars

FairSpec == Spec /\ WF_vars(Next)

(***************************************************************************)
(* Notions the properties are stated with.                                 *)
(***************************************************************************)
\* m2 is divisible by m1: i2 >= i1 and j2 >= j1.
Divisible(m2, m1) == m2[1] >= m1[1] /\ m2[2] >= m1[2]

TotalDegree(m) == m[1] + m[2]

\* The monomials with a non-zero coefficient in p, and the degree of p.
Support(p) == {t[1] : t \in p}
PolyDegree(p) == CHOOSE n \in {TotalDegree(m) : m \in Support(p)} :
                    \A m \in Support(p) : TotalDegree(m) <= n

\* The value of p at a point.
RECURSIVE SumTerms(_, _)
SumTerms(p, pt) ==
    IF p = {} THEN RZero
    ELSE LET t == CHOOSE u \in p : TRUE
         IN  RAdd(RMul(t[2], RInt(Subs(t[1], pt))), SumTerms(p \ {t}, pt))

Vanishes(p, E) == \A n \in 1..Len(E) : SumTerms(p, E[n]) = RZero

\* The polynomials of the records yielded so far, in the order found.
RECURSIVE PolysOf(_)
PolysOf(recs) ==
    IF recs = <<>> THEN <<>>
    ELSE PolysOf(SubSeq(recs, 1, Len(recs) - 1)) \o recs[Len(recs)].polys

\* The polynomials whose leading term has been recorded so far.
Recorded ==
    IF pc = "record" THEN PolysOf(out) \o SubSeq(polys, 1, k - 1) ELSE PolysOf(out)

\* Total degree ascending from 0 to deg, x-exponent descending inside a group.
RECURSIVE GradedXDescending(_)
GradedXDescending(deg) ==
    IF deg < 0 THEN <<>>
    ELSE GradedXDescending(deg - 1) \o [n \in 1..(deg + 1) |-> <<deg - (n - 1), n - 1>>]

\* a comes before b in that order.
GradedBefore(a, b) ==
    \/ TotalDegree(a) < TotalDegree(b)
    \/ TotalDegree(a) = TotalDegree(b) /\ a[1] > b[1]

Range(s) == {s[n] : n \in 1..Len(s)}

(***************************************************************************)
(* C1.  monomials_up_to_degree(d) lists every exponent pair of total       *)
(* degree at most d once, by total degree ascending and, inside a degree,  *)
(* by x-exponent descending from t to 0.  The source lists each degree     *)
(* group by x-exponent ascending: for d = 1 it returns 1, y, x.            *)
(***************************************************************************)
C1_GradedXDescendingOrder ==
    monomials_up_to_degree(d) = GradedXDescending(d)

(***************************************************************************)
(* C2.  Every polynomial yielded at any degree is exactly zero at every    *)
(* point of the input sequence.                                            *)
(***************************************************************************)
C2_YieldedPolysVanish ==
    /\ \A n \in 1..Len(out) : \A q \in 1..Len(out[n].polys) :
          Vanishes(out[n].polys[q], pts)
    /\ pc = "record" => \A q \in 1..Len(polys) : Vanishes(polys[q], pts)

\* The sample point set run to degree 4: three polynomials, all vanishing.
C2_Witness ==
    /\ pts = points
    /\ max_degree = 4
    /\ pc = "done"
    /\ Len(PolysOf(out)) = 3
    /\ \E n \in 1..Len(out) : \E q \in 1..Len(out[n].polys) :
          Cardinality(out[n].polys[q]) >= 2

LowerLeadTerms(recs, deg) ==
    UNION {{LeadTerm(recs[j].polys[q]) : q \in 1..Len(recs[j].polys)} :
             j \in {i \in 1..Len(recs) : recs[i].degree < deg}}

Standard(deg, lts) ==
    LET keep(m) == \A lt \in lts : ~Divisible(m, lt)
    IN  SelectSeq(monomials_up_to_degree(deg), keep)

(***************************************************************************)
(* C3.  In every record, the filtered monomial list is the sub-sequence,   *)
(* in the order of monomials_up_to_degree(d), of the monomials divisible   *)
(* by no leading term recorded at a lower degree; the terms recorded at    *)
(* degree d take no part in it, and filtering leaves the recorded terms    *)
(* as they were.                                                           *)
(***************************************************************************)
C3_FilteredSubsequence ==
    /\ \A n \in 1..Len(out) :
          out[n].monos = Standard(out[n].degree, LowerLeadTerms(out, out[n].degree))
    /\ pc = "solve" =>
          /\ monos_filt = Standard(d, LowerLeadTerms(out, d))
          /\ Range(lead_terms) = LowerLeadTerms(out, d)

\* The sample point set: y^2, x*y and their multiples are gone at degree 3.
C3_Witness ==
    /\ pts = points
    /\ \E n \in 1..Len(out) :
          /\ out[n].degree = 3
          /\ out[n].monos = <<<<0, 0>>, <<0, 1>>, <<1, 0>>, <<2, 0>>, <<3, 0>>>>

GradedFirst(p) ==
    CHOOSE m \in Support(p) : \A u \in Support(p) \ {m} : GradedBefore(m, u)

LexFirst(p) ==
    CHOOSE m \in Support(p) :
        \A u \in Support(p) : u[1] < m[1] \/ (u[1] = m[1] /\ u[2] <= m[2])

C5_EmptyInputYieldsEveryMonomial ==
    pts = <<>> =>
        \A n \in 1..Len(out) :
            /\ Len(out[n].polys) = Len(out[n].monos)
            /\ \A c \in 1..Len(out[n].monos) :
                  out[n].polys[c] = {<<out[n].monos[c], ROne>>}

(***************************************************************************)
(* C6.  A run starts at degree 0 with no leading term, yields one record   *)
(* per degree 0, 1, ..., max_degree in ascending order, also at a degree   *)
(* where nothing is found, and then ends.                                  *)
(***************************************************************************)
C6_OneRecordPerDegree ==
    /\ d = 0 /\ lead_terms = <<>> /\ out = <<>>
    /\ [](\A n \in 1..Len(out) : out[n].degree = n - 1)
    /\ [](Len(out) <= max_degree + 1)
    /\ [](pc = "done" => Len(out) = max_degree + 1)
    /\ [][pc # "done"]_vars
    /\ <>(pc = "done")

\* A finished run of the largest degree bound with an empty record.
C6_Witness ==
    /\ pc = "done"
    /\ max_degree = MaxDegree
    /\ Len(out) = MaxDegree + 1
    /\ \E n \in 1..Len(out) : out[n].polys = <<>>
    /\ \E n \in 1..Len(out) : out[n].polys # <<>>

(***************************************************************************)
(* C7.  No step of a run removes a leading term: the recorded terms after  *)
(* a step contain the recorded terms before it.                            *)
(***************************************************************************)
C7_LeadTermsOnlyGrow ==
    [][/\ Range(lead_terms) \subseteq Range(lead_terms')
       /\ Len(lead_terms) <= Len(lead_terms')
       /\ SubSeq(lead_terms', 1, Len(lead_terms)) = lead_terms]_vars

\* Terms recorded at two different degrees are in force together.
C7_Witness ==
    /\ pc = "filter"
    /\ \E a, b \in 1..Len(out) :
          a < b /\ out[a].polys # <<>> /\ out[b].polys # <<>>
    /\ Len(lead_terms) >= 3

(***************************************************************************)
(* C8.  The recorded leading terms never hold two entries of which one     *)
(* divides the other (no entry twice, no entry a multiple of another).     *)
(* The source records x and then x*y for the points (0,0), (0,1), (1,2).   *)
(***************************************************************************)
C8_NoEntryDividesAnother ==
    \A a, b \in 1..Len(lead_terms) :
        a # b => ~Divisible(lead_terms[b], lead_terms[a])

(***************************************************************************)
(* C9.  For a non-empty point sequence: nothing is found at degree 0, the  *)
(* constant monomial is never recorded, and it heads the filtered list of  *)
(* every degree, so the evaluation matrix always has a column.             *)
(***************************************************************************)
C9_ConstantIsKept ==
    pts # <<>> =>
        /\ \A n \in 1..Len(out) :
              /\ out[n].degree = 0 => out[n].polys = <<>>
              /\ Len(out[n].monos) >= 1
              /\ out[n].monos[1] = <<0, 0>>
        /\ <<0, 0>> \notin Range(lead_terms)
        /\ pc \in {"solve", "record"} =>
              /\ Len(monos_filt) >= 1
              /\ monos_filt[1] = <<0, 0>>
              /\ Cols(EvalMatrix(monos_filt, pts)) >= 1
        /\ pc = "record" /\ d = 0 => polys = <<>>

\* The single point (0,0) up to degree 1: nothing at degree 0, then y and x,
\* found among 1, y, x.
C9_Witness ==
    /\ pts = <<<<0, 0>>>>
    /\ max_degree = 1
    /\ pc = "done"
    /\ out[1].polys = <<>>
    /\ out[2].monos = <<<<0, 0>>, <<0, 1>>, <<1, 0>>>>
    /\ Len(out[2].polys) = 2

(***************************************************************************)
(* C10.  Every polynomial of the record of degree d has total degree d.    *)
(* For six points on no conic the source records x^2 twice at degree 3     *)
(* and then finds a polynomial of degree 3 in the record of degree 4.      *)
(***************************************************************************)
C10_YieldedAtOwnDegree ==
    \A n \in 1..Len(out) : \A q \in 1..Len(out[n].polys) :
        PolyDegree(out[n].polys[q]) = out[n].degree

=============================================================================
